---------------------------- MODULE Spec2Model ----------------------------
(***************************************************************************)
(* Signaling state machine of the two-person WebRTC call (src/src/App.tsx; *)
(* src/unnamed/part_001 is a variant with the same signaling logic).       *)
(*                                                                         *)
(* Every browser tab running the App component is a session.  A session    *)
(* runs createRoom (caller) or joinRoom (callee); both are async functions  *)
(* and every `await` is a suspension point, so each continuation between   *)
(* two awaits is one action.  Promise continuations that follow each other *)
(* with no await on an external completion in between (a `return` of       *)
(* setupSignaling followed by the rest of joinRoom, a rejection followed   *)
(* by the catch block) run in the same microtask checkpoint and are one    *)
(* action.  Callbacks (store snapshots, onicecandidate, the completion of  *)
(* setRemoteDescription(answer)) are actions of their own.                 *)
(*                                                                         *)
(* Firestore and RTCPeerConnection are external collaborators; they are    *)
(* modelled by the part of their contract the code relies on:              *)
(*  - addDoc allocates a fresh document id; setDoc replaces the document;  *)
(*    updateDoc sets one field; getDoc reads once;                         *)
(*  - doc(db, 'rooms', '') throws (a document path needs an even number    *)
(*    of non-empty segments);                                              *)
(*  - a collection listener reports every document as 'added' once, in     *)
(*    batches of any size, the first batch carrying the documents that     *)
(*    existed at subscription; a document listener fires with the current  *)
(*    data on subscription and after every later write;                    *)
(*  - ICE gathering (onicecandidate) starts with setLocalDescription;      *)
(*    currentRemoteDescription is set when setRemoteDescription resolves.  *)
(* Store and engine calls do not fail here, except getUserMedia.           *)
(* joinRoom is modelled as the handler it is: it can be started with any   *)
(* roomId, the empty string included.                                      *)
(***************************************************************************)
EXTENDS Integers, Sequences, FiniteSets, TLC

VARIABLES
  pc, role, roomId, inRoom, error, status,          \* App state of each session
  localDesc, remoteDesc, srdPending, srdCalls,      \* RTCPeerConnection of each session
  remoteCands, iceEmitted, iceHandler, iceAccepted, connected,
  candSub, candCursor, roomSub, roomSeen,           \* store listeners of each session
  rooms, offerCandidates, answerCandidates,         \* the store
  writeLog, reads, fetched, engineLog, subscribedAt, \* history of each session
  orderA, orderB, posA, posB, fedA, fedB            \* two deliveries of one record set

appVars    == <<pc, role, roomId, inRoom, error, status>>
engineVars == <<localDesc, remoteDesc, srdPending, srdCalls, remoteCands, iceEmitted, iceHandler>>
linkVars   == <<iceAccepted, connected>>
subVars    == <<candSub, candCursor, roomSub, roomSeen>>
storeVars  == <<rooms, offerCandidates, answerCandidates>>
histVars   == <<writeLog, reads, fetched, engineLog, subscribedAt>>
mainVars   == <<appVars, engineVars, linkVars, subVars, storeVars, histVars>>
permVars   == <<orderA, orderB, posA, posB, fedA, fedB>>
vars       == <<mainVars, permVars>>

-----------------------------------------------------------------------------
(* Bounds *)

NumSessions == 3    \* browser tabs
MaxRooms    == 1    \* rooms the store allocates
MaxCand     == 1    \* local candidates one engine discovers
MaxRecs     == 3    \* records of the permutation experiment

Sessions == 1..NumSessions
RoomIds  == 1..MaxRooms
EmptyId  == 0                      \* the empty string '' of the room-id input
RoomInputs == {EmptyId} \cup RoomIds
None     == 0                      \* an absent field / description

-----------------------------------------------------------------------------
(* Strings the App shows *)

StCreating      == "Creating room..."
StJoining       == "Joining room..."
StMedia         == "Local media stream acquired."
StRoomCreated   == "Room created. Waiting for other user to join..."
StSignaling     == "Setting up signaling..."
StCreatingOffer == "Creating offer..."
StWaitingAnswer == "Waiting for answer..."
StConnected     == "Connected!"
StFetching      == "Fetching room info..."
StSettingRemote == "Setting remote description..."
StCreatingAnswer == "Creating answer..."
StAnswerSent    == "Answer sent. Waiting for connection..."
StJoined        == "Joined room. Connecting..."
ErrCreate       == "Failed to create room: "
ErrJoin         == "Failed to join room: "
ErrRoomNotFound == "Room not found. Please check the Room ID."
ErrNoOffer      == "No offer found in this room. Wait for the other user to create the room."

-----------------------------------------------------------------------------
(* The store (Firestore): rooms/{id} documents and their two candidate     *)
(* subcollections.                                                         *)

NoRoom == [exists |-> FALSE, offer |-> None, answer |-> None, ver |-> 0]

\* addDoc(collection(db, 'rooms'), {}): the id the generator assigns
FreshRoomId == CHOOSE r \in RoomIds : ~rooms[r].exists /\ \A q \in RoomIds : q < r => rooms[q].exists

\* addDoc(collection(db, 'rooms'), {}): an empty document
AddDocRoom(r) == [rooms EXCEPT ![r] = [exists |-> TRUE, offer |-> None, answer |-> None, ver |-> 1]]

\* setDoc(roomRef, { offer }): create-or-replace of the whole document
SetDocOffer(r, offer) ==
  [rooms EXCEPT ![r] = [exists |-> TRUE, offer |-> offer, answer |-> None, ver |-> @.ver + 1]]

\* (variant: the answer written with the create-or-replace of setDoc)
UpdateDocAnswerReplacing(r, answer) ==
  [rooms EXCEPT ![r] = [exists |-> TRUE, offer |-> None, answer |-> answer, ver |-> @.ver + 1]]

\* updateDoc(roomRef, { answer }): sets the one field
UpdateDocAnswer(r, answer) ==
  [rooms EXCEPT ![r] = [@ EXCEPT !.answer = answer, !.ver = @ + 1]]

\* (variant: a reference is built for any id)
DocRefNeverThrows(id) == FALSE

\* doc(db, 'rooms', roomId) throws on an empty id
DocRefThrows(id) == id = EmptyId

\* (variant: the two collections swapped)
OwnCollectionSwapped(isCaller) == IF isCaller THEN "answerCandidates" ELSE "offerCandidates"

\* isCaller ? offerCandidates : answerCandidates  (the collection a session appends to)
OwnCollection(isCaller) == IF isCaller THEN "offerCandidates" ELSE "answerCandidates"

\* isCaller ? answerCandidates : offerCandidates  (the collection a session listens to)
PeerCollection(isCaller) == IF isCaller THEN "answerCandidates" ELSE "offerCandidates"

IsCaller(s) == role[s] = "caller"

\* the documents of a candidate collection; a collection under a room id the store has
\* never seen is empty
Records(coll, r) ==
  IF r \notin RoomIds THEN <<>>
  ELSE IF coll = "offerCandidates" THEN offerCandidates[r] ELSE answerCandidates[r]

\* getDoc(roomRef) / the data of a Room snapshot
RoomData(r) == IF r \in RoomIds THEN rooms[r] ELSE NoRoom

-----------------------------------------------------------------------------
(* The inbound candidate handler *)

\* snapshot.docChanges().forEach(change => if (change.type === 'added')
\*     pc.addIceCandidate(new RTCIceCandidate(change.doc.data())))
\* changes: the batch, a sequence of [type, data]; fed: the engine's remote candidates so far
RECURSIVE FeedChanges(_, _)
FeedChanges(fed, changes) ==
  IF changes = <<>> THEN fed
  ELSE FeedChanges(IF Head(changes).type = "added" THEN Append(fed, Head(changes).data) ELSE fed,
                   Tail(changes))

\* the docChanges() of a snapshot that reports documents from+1..to of a collection
DocChanges(recs, from, to) == [i \in 1..(to - from) |-> [type |-> "added", data |-> recs[from + i]]]

SeqToSet(q) == {q[i] : i \in 1..Len(q)}
Count(q, x) == Cardinality({i \in 1..Len(q) : q[i] = x})

-----------------------------------------------------------------------------
MainInit ==
  /\ pc = [s \in Sessions |-> "idle"]
  /\ role = [s \in Sessions |-> "none"]
  /\ roomId = [s \in Sessions |-> EmptyId]        \* useState('')
  /\ inRoom = [s \in Sessions |-> FALSE]          \* useState(false)
  /\ error = [s \in Sessions |-> ""]
  /\ status = [s \in Sessions |-> ""]
  /\ localDesc = [s \in Sessions |-> None]
  /\ remoteDesc = [s \in Sessions |-> None]
  /\ srdPending = [s \in Sessions |-> <<>>]
  /\ srdCalls = [s \in Sessions |-> 0]
  /\ remoteCands = [s \in Sessions |-> <<>>]
  /\ iceEmitted = [s \in Sessions |-> 0]
  /\ iceHandler = [s \in Sessions |-> FALSE]
  /\ iceAccepted = [s \in Sessions |-> <<>>]
  /\ connected = [s \in Sessions |-> FALSE]
  /\ candSub = [s \in Sessions |-> FALSE]
  /\ candCursor = [s \in Sessions |-> 0]
  /\ roomSub = [s \in Sessions |-> FALSE]
  /\ roomSeen = [s \in Sessions |-> 0]
  /\ rooms = [r \in RoomIds |-> NoRoom]
  /\ offerCandidates = [r \in RoomIds |-> <<>>]
  /\ answerCandidates = [r \in RoomIds |-> <<>>]
  /\ writeLog = {}
  /\ reads = [s \in Sessions |-> 0]
  /\ fetched = [s \in Sessions |-> [done |-> FALSE, data |-> NoRoom]]
  /\ engineLog = [s \in Sessions |-> <<>>]
  /\ subscribedAt = [s \in Sessions |-> 0]

PermIdle ==
  /\ orderA = <<>> /\ orderB = <<>>
  /\ posA = 0 /\ posB = 0
  /\ fedA = <<>> /\ fedB = <<>>

Init == MainInit /\ PermIdle

-----------------------------------------------------------------------------
(* setupSignaling, lines 96-132: the part that runs before the role branch *)

\* (variant: the listener is started but pc.onicecandidate is not assigned)
StartRelayListenerOnly(s, r) ==
  /\ candSub' = [candSub EXCEPT ![s] = TRUE]
  /\ candCursor' = [candCursor EXCEPT ![s] = 0]
  /\ iceHandler' = iceHandler
  /\ subscribedAt' = [subscribedAt EXCEPT ![s] =
                        Len(Records(PeerCollection(IsCaller(s)), r))]

\* onSnapshot(isCaller ? answerCandidates : offerCandidates, ...), pc.onicecandidate = ...
\* (subscribedAt records how many peer records the collection held at that moment)
StartRelay(s, r) ==
  /\ candSub' = [candSub EXCEPT ![s] = TRUE]
  /\ candCursor' = [candCursor EXCEPT ![s] = 0]
  /\ iceHandler' = [iceHandler EXCEPT ![s] = TRUE]
  /\ subscribedAt' = [subscribedAt EXCEPT ![s] =
                        Len(Records(PeerCollection(IsCaller(s)), r))]

-----------------------------------------------------------------------------
(* createRoom *)

\* rooms allocated or about to be: bounds the attempts the model starts
RoomsInUse ==
  Cardinality({r \in RoomIds : rooms[r].exists})
    + Cardinality({t \in Sessions : role[t] = "caller" /\ pc[t] \in {"getUserMedia", "addDoc"}})

\* click on Create Room: lines 22-27, up to the await of getUserMedia
CreateRoom(s) ==
  /\ pc[s] = "idle" /\ ~inRoom[s]
  /\ RoomsInUse < MaxRooms                      \* the model's store holds MaxRooms rooms
  /\ pc' = [pc EXCEPT ![s] = "getUserMedia"]
  /\ role' = [role EXCEPT ![s] = "caller"]
  /\ error' = [error EXCEPT ![s] = ""]
  /\ status' = [status EXCEPT ![s] = StCreating]
  /\ UNCHANGED <<roomId, inRoom, engineVars, subVars, storeVars, histVars, linkVars, permVars>>

\* (variant: createRoom allocates the Room before it acquires the media)
MediaFailsRoomFirst(s) ==
  /\ pc[s] = "getUserMedia"
  /\ pc' = [pc EXCEPT ![s] = "idle"]
  /\ error' = [error EXCEPT ![s] = IF IsCaller(s) THEN ErrCreate ELSE ErrJoin]
  /\ status' = [status EXCEPT ![s] = ""]
  /\ IF IsCaller(s)
       THEN /\ rooms' = AddDocRoom(FreshRoomId)
            /\ writeLog' = writeLog \cup
                 {[by |-> s, as |-> role[s], field |-> "room", room |-> FreshRoomId]}
       ELSE UNCHANGED <<rooms, writeLog>>
  /\ UNCHANGED <<role, roomId, inRoom, engineVars, subVars, offerCandidates, answerCandidates,
                 reads, fetched, engineLog, subscribedAt, linkVars, permVars>>

\* getUserMedia rejects: setupLocalStream's catch, then the catch of createRoom / joinRoom
MediaFails(s) ==
  /\ pc[s] = "getUserMedia"
  /\ pc' = [pc EXCEPT ![s] = "idle"]
  /\ error' = [error EXCEPT ![s] = IF IsCaller(s) THEN ErrCreate ELSE ErrJoin]
  /\ status' = [status EXCEPT ![s] = ""]
  /\ UNCHANGED <<role, roomId, inRoom, engineVars, subVars, storeVars, histVars, linkVars, permVars>>

\* getUserMedia resolves in createRoom: lines 66-70, 28, and the call of addDoc (line 29)
CallerMediaReady(s) ==
  /\ pc[s] = "getUserMedia" /\ IsCaller(s)
  /\ pc' = [pc EXCEPT ![s] = "addDoc"]
  /\ status' = [status EXCEPT ![s] = StMedia]
  /\ UNCHANGED <<role, roomId, inRoom, error, engineVars, subVars, storeVars, histVars, linkVars, permVars>>

\* addDoc resolves: lines 29-33, then setupSignaling lines 96-137, up to the await of createOffer
RoomAllocated(s) ==
  /\ pc[s] = "addDoc"
  /\ LET r == FreshRoomId IN
       /\ rooms' = AddDocRoom(r)
       /\ roomId' = [roomId EXCEPT ![s] = r]
       /\ writeLog' = writeLog \cup {[by |-> s, as |-> role[s], field |-> "room", room |-> r]}
       /\ StartRelay(s, r)
  /\ inRoom' = [inRoom EXCEPT ![s] = TRUE]
  /\ status' = [status EXCEPT ![s] = StCreatingOffer]
  /\ engineLog' = [engineLog EXCEPT ![s] = Append(@, "createOffer")]
  /\ pc' = [pc EXCEPT ![s] = "createOffer"]
  /\ UNCHANGED <<role, error, localDesc, remoteDesc, srdPending, srdCalls, remoteCands, iceEmitted,
                 roomSub, roomSeen, offerCandidates, answerCandidates, reads, fetched, linkVars, permVars>>

\* createOffer resolves: the call of setLocalDescription(offer), line 138
OfferCreated(s) ==
  /\ pc[s] = "createOffer"
  /\ pc' = [pc EXCEPT ![s] = "setLocalOffer"]
  /\ engineLog' = [engineLog EXCEPT ![s] = Append(@, "setLocalDescription")]
  /\ UNCHANGED <<role, roomId, inRoom, error, status, engineVars, subVars, storeVars,
                 writeLog, reads, fetched, subscribedAt, linkVars, permVars>>

\* (variant: setLocalDescription(offer) is not awaited, setDoc is called at once)
LocalOfferSetNotAwaited(s) ==
  /\ pc[s] = "setLocalOffer"
  /\ pc' = [pc EXCEPT ![s] = "setDoc"]
  /\ UNCHANGED <<role, roomId, inRoom, error, status, engineVars, subVars, storeVars,
                 histVars, linkVars, permVars>>

\* setLocalDescription(offer) resolves: the call of setDoc, line 139
LocalOfferSet(s) ==
  /\ pc[s] = "setLocalOffer"
  /\ localDesc' = [localDesc EXCEPT ![s] = s]
  /\ pc' = [pc EXCEPT ![s] = "setDoc"]
  /\ UNCHANGED <<role, roomId, inRoom, error, status, remoteDesc, srdPending, srdCalls, remoteCands,
                 iceEmitted, iceHandler, subVars, storeVars, histVars, linkVars, permVars>>

\* what line 139 writes: setDoc(roomRef, { offer })
PublishOffer(s) == SetDocOffer(roomId[s], localDesc[s])

\* setDoc resolves: lines 139-149; setupSignaling and createRoom return
OfferPublished(s) ==
  /\ pc[s] = "setDoc"
  /\ rooms' = PublishOffer(s)
  /\ writeLog' = writeLog \cup {[by |-> s, as |-> role[s], field |-> "offer", room |-> roomId[s]]}
  /\ status' = [status EXCEPT ![s] = StWaitingAnswer]
  /\ roomSub' = [roomSub EXCEPT ![s] = TRUE]
  /\ roomSeen' = [roomSeen EXCEPT ![s] = 0]
  /\ pc' = [pc EXCEPT ![s] = "done"]
  /\ UNCHANGED <<role, roomId, inRoom, error, engineVars, candSub, candCursor,
                 offerCandidates, answerCandidates, reads, fetched, engineLog, subscribedAt, linkVars, permVars>>

-----------------------------------------------------------------------------
(* joinRoom *)

\* Join Room with the typed room id: lines 44-49, up to the await of getUserMedia
JoinRoom(s, id) ==
  /\ pc[s] = "idle" /\ ~inRoom[s]
  /\ roomId' = [roomId EXCEPT ![s] = id]
  /\ pc' = [pc EXCEPT ![s] = "getUserMedia"]
  /\ role' = [role EXCEPT ![s] = "callee"]
  /\ error' = [error EXCEPT ![s] = ""]
  /\ status' = [status EXCEPT ![s] = StJoining]
  /\ UNCHANGED <<inRoom, engineVars, subVars, storeVars, histVars, linkVars, permVars>>

\* getUserMedia resolves in joinRoom: lines 66-70, 50-52, setupSignaling lines 96-153 up to the
\* await of getDoc; with an empty id doc() throws at line 97 and the catch of joinRoom runs
CalleeMediaReady(s) ==
  /\ pc[s] = "getUserMedia" /\ ~IsCaller(s)
  /\ inRoom' = [inRoom EXCEPT ![s] = TRUE]
  /\ IF DocRefThrows(roomId[s])
       THEN /\ error' = [error EXCEPT ![s] = ErrJoin]
            /\ status' = [status EXCEPT ![s] = ""]
            /\ pc' = [pc EXCEPT ![s] = "done"]
            /\ UNCHANGED <<candSub, candCursor, iceHandler, reads, subscribedAt>>
       ELSE /\ StartRelay(s, roomId[s])
            /\ status' = [status EXCEPT ![s] = StFetching]
            /\ reads' = [reads EXCEPT ![s] = @ + 1]
            /\ pc' = [pc EXCEPT ![s] = "getDoc"]
            /\ UNCHANGED error
  /\ UNCHANGED <<role, roomId, localDesc, remoteDesc, srdPending, srdCalls, remoteCands, iceEmitted,
                 roomSub, roomSeen, storeVars, writeLog, fetched, engineLog, linkVars, permVars>>

\* (variant: without the check of line 155)
LookupResultNoExistCheck(data) == IF data.offer = None THEN "nooffer" ELSE "offer"

\* (variant: without the check of line 160)
LookupResultNoOfferCheck(data) == IF ~data.exists THEN "absent" ELSE "offer"

\* const data = roomSnap.data(); if (!data) ...; if (!data.offer) ...   (lines 154-164)
LookupResult(data) ==
  IF ~data.exists THEN "absent"
  ELSE IF data.offer = None THEN "nooffer"
  ELSE "offer"

\* joinRoom after `await setupSignaling(...)` has returned normally, line 53:
\* setStatus('Joined room. Connecting...') replaces the status setupSignaling left
JoinRoomTail(left) == StJoined

\* getDoc resolves: lines 153-166; on a failed lookup setupSignaling returns and
\* joinRoom goes on with line 53
RoomFetched(s) ==
  /\ pc[s] = "getDoc"
  /\ LET data == RoomData(roomId[s])
         res == LookupResult(data)
     IN /\ fetched' = [fetched EXCEPT ![s] = [done |-> TRUE, data |-> data]]
        /\ IF res = "absent"
             THEN /\ error' = [error EXCEPT ![s] = ErrRoomNotFound]
                  /\ status' = [status EXCEPT ![s] = JoinRoomTail("")]
                  /\ pc' = [pc EXCEPT ![s] = "done"]
                  /\ UNCHANGED <<engineLog, srdPending, srdCalls>>
           ELSE IF res = "nooffer"
             THEN /\ error' = [error EXCEPT ![s] = ErrNoOffer]
                  /\ status' = [status EXCEPT ![s] = JoinRoomTail("")]
                  /\ pc' = [pc EXCEPT ![s] = "done"]
                  /\ UNCHANGED <<engineLog, srdPending, srdCalls>>
           ELSE /\ status' = [status EXCEPT ![s] = StSettingRemote]
                /\ engineLog' = [engineLog EXCEPT ![s] = Append(@, "setRemoteDescription")]
                /\ srdPending' = [srdPending EXCEPT ![s] = Append(@, data.offer)]
                /\ srdCalls' = [srdCalls EXCEPT ![s] = @ + 1]
                /\ pc' = [pc EXCEPT ![s] = "setRemoteOffer"]
                /\ UNCHANGED error
  /\ UNCHANGED <<role, roomId, inRoom, localDesc, remoteDesc, remoteCands, iceEmitted,
                 iceHandler, subVars, storeVars, writeLog, reads, subscribedAt, linkVars, permVars>>

\* setRemoteDescription(offer) resolves: lines 166-168, the call of createAnswer
RemoteOfferSet(s) ==
  /\ pc[s] = "setRemoteOffer"
  /\ remoteDesc' = [remoteDesc EXCEPT ![s] = Head(srdPending[s])]
  /\ srdPending' = [srdPending EXCEPT ![s] = Tail(@)]
  /\ status' = [status EXCEPT ![s] = StCreatingAnswer]
  /\ engineLog' = [engineLog EXCEPT ![s] = Append(@, "createAnswer")]
  /\ pc' = [pc EXCEPT ![s] = "createAnswer"]
  /\ UNCHANGED <<role, roomId, inRoom, error, localDesc, srdCalls, remoteCands, iceEmitted,
                 iceHandler, subVars, storeVars, writeLog, reads, fetched, subscribedAt, linkVars, permVars>>

\* createAnswer resolves: the call of setLocalDescription(answer), line 169
AnswerCreated(s) ==
  /\ pc[s] = "createAnswer"
  /\ pc' = [pc EXCEPT ![s] = "setLocalAnswer"]
  /\ engineLog' = [engineLog EXCEPT ![s] = Append(@, "setLocalDescription")]
  /\ UNCHANGED <<role, roomId, inRoom, error, status, engineVars, subVars, storeVars,
                 writeLog, reads, fetched, subscribedAt, linkVars, permVars>>

\* setLocalDescription(answer) resolves: the call of updateDoc, line 170
LocalAnswerSet(s) ==
  /\ pc[s] = "setLocalAnswer"
  /\ localDesc' = [localDesc EXCEPT ![s] = s]
  /\ pc' = [pc EXCEPT ![s] = "updateDoc"]
  /\ UNCHANGED <<role, roomId, inRoom, error, status, remoteDesc, srdPending, srdCalls, remoteCands,
                 iceEmitted, iceHandler, subVars, storeVars, histVars, linkVars, permVars>>

\* what line 170 writes: updateDoc(roomRef, { answer })
PublishAnswer(s) == UpdateDocAnswer(roomId[s], localDesc[s])

\* updateDoc resolves: lines 170-171; setupSignaling returns and joinRoom goes on with line 53
AnswerPublished(s) ==
  /\ pc[s] = "updateDoc"
  /\ rooms' = PublishAnswer(s)
  /\ writeLog' = writeLog \cup {[by |-> s, as |-> role[s], field |-> "answer", room |-> roomId[s]]}
  /\ status' = [status EXCEPT ![s] = JoinRoomTail(StAnswerSent)]
  /\ pc' = [pc EXCEPT ![s] = "done"]
  /\ UNCHANGED <<role, roomId, inRoom, error, engineVars, subVars,
                 offerCandidates, answerCandidates, reads, fetched, engineLog, subscribedAt, linkVars, permVars>>

-----------------------------------------------------------------------------
(* Callbacks *)

\* what a collection listener hands to its callback: the documents reported so far and
\* the changes since the previous snapshot
Snapshot(recs, from, to) == [docs |-> SubSeq(recs, 1, to), changes |-> DocChanges(recs, from, to)]

\* (variant: every document of the snapshot is fed, not only the changes)
OnCandidateSnapshotAllDocs(fed, snapshot) ==
  FeedChanges(fed, [i \in 1..Len(snapshot.docs) |-> [type |-> "added", data |-> snapshot.docs[i]]])

\* (variant: only the first change of a snapshot is fed)
OnCandidateSnapshotFirstOnly(fed, snapshot) == FeedChanges(fed, SubSeq(snapshot.changes, 1, 1))

\* the callback of lines 102-110
OnCandidateSnapshot(fed, snapshot) == FeedChanges(fed, snapshot.changes)

\* RTCPeerConnection.addIceCandidate: the call joins the engine's operations chain and is
\* rejected (InvalidStateError) when the engine has no remote description by then, that
\* is when none is set and no setRemoteDescription is ahead of it in the chain
AddIceCandidateRejected(s) == remoteDesc[s] = None /\ srdPending[s] = <<>>

\* (variant: the catch reports the failure as the outbound handler does at line 120)
AddIceCandidateCatchSetsError(err) == "Failed to add ICE candidate: "

\* .catch(e => console.error('Error adding ICE candidate', e)), line 107: the error shown
\* by the App after a rejected addIceCandidate
AddIceCandidateCatch(err) == err

\* the store notifies the candidate listener of the next batch of the peer's records;
\* iceAccepted is the engine's set of remote candidates
CandidateSnapshot(s) ==
  /\ candSub[s]
  /\ LET recs == Records(PeerCollection(IsCaller(s)), roomId[s]) IN
       \E to \in (candCursor[s] + 1)..Len(recs) :
         LET fed == OnCandidateSnapshot(remoteCands[s], Snapshot(recs, candCursor[s], to)) IN
           /\ remoteCands' = [remoteCands EXCEPT ![s] = fed]
           /\ candCursor' = [candCursor EXCEPT ![s] = to]
           /\ IF AddIceCandidateRejected(s) /\ Len(fed) > Len(remoteCands[s])
                THEN /\ error' = [error EXCEPT ![s] = AddIceCandidateCatch(@)]
                     /\ UNCHANGED iceAccepted
                ELSE /\ iceAccepted' = [iceAccepted EXCEPT ![s] =
                            @ \o SubSeq(fed, Len(remoteCands[s]) + 1, Len(fed))]
                     /\ UNCHANGED error
  /\ UNCHANGED <<pc, role, roomId, inRoom, status, localDesc, remoteDesc, srdPending, srdCalls,
                 iceEmitted, iceHandler, candSub, roomSub, roomSeen, storeVars, histVars,
                 connected, permVars>>

\* pc.onicecandidate with a candidate: lines 113-124, addDoc to the session's own collection
LocalCandidate(s) ==
  /\ iceHandler[s] /\ localDesc[s] # None
  /\ iceEmitted[s] < MaxCand
  /\ iceEmitted' = [iceEmitted EXCEPT ![s] = @ + 1]
  /\ LET rec == [from |-> s, n |-> iceEmitted[s] + 1]
         coll == OwnCollection(IsCaller(s))
     IN /\ IF coll = "offerCandidates"
             THEN /\ offerCandidates' = [offerCandidates EXCEPT ![roomId[s]] = Append(@, rec)]
                  /\ UNCHANGED answerCandidates
             ELSE /\ answerCandidates' = [answerCandidates EXCEPT ![roomId[s]] = Append(@, rec)]
                  /\ UNCHANGED offerCandidates
        /\ writeLog' = writeLog \cup {[by |-> s, as |-> role[s], field |-> coll, room |-> roomId[s]]}
  /\ UNCHANGED <<appVars, localDesc, remoteDesc, srdPending, srdCalls, remoteCands, iceHandler,
                 subVars, rooms, reads, fetched, engineLog, subscribedAt, linkVars, permVars>>

\* (variant: the test of currentRemoteDescription inverted)
ShouldApplyAnswerInverted(data, currentRemoteDescription) ==
  data.answer # None /\ currentRemoteDescription # None

\* if (data?.answer && !pc.currentRemoteDescription), line 144
ShouldApplyAnswer(data, currentRemoteDescription) ==
  data.answer # None /\ currentRemoteDescription = None

\* (variant: the Room listener registered outside the isCaller branch)
RoomSnapshotAnyRole(s) ==
  /\ pc[s] = "done"
  /\ roomSeen[s] < RoomData(roomId[s]).ver
  /\ roomSeen' = [roomSeen EXCEPT ![s] = RoomData(roomId[s]).ver]
  /\ LET data == RoomData(roomId[s]) IN
       IF ShouldApplyAnswer(data, None)
         THEN /\ srdPending' = [srdPending EXCEPT ![s] = Append(@, data.answer)]
              /\ srdCalls' = [srdCalls EXCEPT ![s] = @ + 1]
         ELSE UNCHANGED <<srdPending, srdCalls>>
  /\ UNCHANGED <<appVars, localDesc, remoteDesc, remoteCands, iceEmitted, iceHandler,
                 candSub, candCursor, roomSub, storeVars, histVars, linkVars, permVars>>

\* the store notifies the caller's Room listener: lines 142-149, up to the call of
\* setRemoteDescription(answer)
RoomSnapshot(s) ==
  /\ roomSub[s]
  /\ roomSeen[s] < RoomData(roomId[s]).ver
  /\ roomSeen' = [roomSeen EXCEPT ![s] = RoomData(roomId[s]).ver]
  /\ LET data == RoomData(roomId[s]) IN
       IF ShouldApplyAnswer(data, remoteDesc[s])
         THEN /\ srdPending' = [srdPending EXCEPT ![s] = Append(@, data.answer)]
              /\ srdCalls' = [srdCalls EXCEPT ![s] = @ + 1]
         ELSE UNCHANGED <<srdPending, srdCalls>>
  /\ UNCHANGED <<appVars, localDesc, remoteDesc, remoteCands, iceEmitted, iceHandler,
                 candSub, candCursor, roomSub, storeVars, histVars, linkVars, permVars>>

\* the engine finishes a setRemoteDescription(answer) of the caller: it resolves when the
\* engine holds a local offer and no remote description, and then(...) of line 145 runs;
\* a further answer is rejected (InvalidStateError) and nothing handles the rejection
RemoteAnswerSet(s) ==
  /\ IsCaller(s) /\ srdPending[s] # <<>>
  /\ srdPending' = [srdPending EXCEPT ![s] = Tail(@)]
  /\ IF remoteDesc[s] = None
       THEN /\ remoteDesc' = [remoteDesc EXCEPT ![s] = Head(srdPending[s])]
            /\ status' = [status EXCEPT ![s] = StConnected]
       ELSE UNCHANGED <<remoteDesc, status>>
  /\ UNCHANGED <<pc, role, roomId, inRoom, error, localDesc, srdCalls, remoteCands, iceEmitted,
                 iceHandler, subVars, storeVars, histVars, linkVars, permVars>>

\* the engine of s reaches connectionState 'connected': both descriptions are set on s
\* and on its peer.  setupSignaling registers onicecandidate and ontrack only (lines
\* 113-132), no connection-state handler, so no code of the App runs
EngineConnects(s) ==
  /\ ~connected[s]
  /\ localDesc[s] # None /\ remoteDesc[s] # None
  /\ remoteDesc[remoteDesc[s]] = s
  /\ connected' = [connected EXCEPT ![s] = TRUE]
  /\ UNCHANGED <<appVars, engineVars, iceAccepted, subVars, storeVars, histVars, permVars>>

-----------------------------------------------------------------------------
Next ==
  \E s \in Sessions :
    \/ CreateRoom(s)
    \/ \E id \in RoomInputs : JoinRoom(s, id)
    \/ MediaFails(s)
    \/ CallerMediaReady(s)
    \/ RoomAllocated(s)
    \/ OfferCreated(s)
    \/ LocalOfferSet(s)
    \/ OfferPublished(s)
    \/ CalleeMediaReady(s)
    \/ RoomFetched(s)
    \/ RemoteOfferSet(s)
    \/ AnswerCreated(s)
    \/ LocalAnswerSet(s)
    \/ AnswerPublished(s)
    \/ CandidateSnapshot(s)
    \/ LocalCandidate(s)
    \/ RoomSnapshot(s)
    \/ RemoteAnswerSet(s)

Spec == Init /\ [][Next]_vars

-----------------------------------------------------------------------------
(* The inbound relay on its own: one set of peer records delivered to two  *)
(* engines in two orders, each delivery split into batches of any size.    *)

Perms(S) == {f \in [1..Cardinality(S) -> S] : \A i, j \in 1..Cardinality(S) : f[i] = f[j] => i = j}

PermInit ==
  /\ MainInit
  /\ \E S \in SUBSET (1..MaxRecs) : orderA \in Perms(S) /\ orderB \in Perms(S)
  /\ posA = 0 /\ posB = 0
  /\ fedA = <<>> /\ fedB = <<>>

DeliverA ==
  /\ \E to \in (posA + 1)..Len(orderA) :
       /\ fedA' = OnCandidateSnapshot(fedA, Snapshot(orderA, posA, to))
       /\ posA' = to
  /\ UNCHANGED <<mainVars, orderA, orderB, posB, fedB>>

DeliverB ==
  /\ \E to \in (posB + 1)..Len(orderB) :
       /\ fedB' = OnCandidateSnapshot(fedB, Snapshot(orderB, posB, to))
       /\ posB' = to
  /\ UNCHANGED <<mainVars, orderA, orderB, posA, fedA>>

PermNext == DeliverA \/ DeliverB

PermSpec == PermInit /\ [][PermNext]_vars

-----------------------------------------------------------------------------
(* Scheduling: the event loop runs every completion and every notification *)
(* that is pending; clicks and the failure of getUserMedia are not forced. *)

Fairness ==
  \A s \in Sessions :
    /\ WF_vars(CallerMediaReady(s))
    /\ WF_vars(RoomAllocated(s))
    /\ WF_vars(OfferCreated(s))
    /\ WF_vars(LocalOfferSet(s))
    /\ WF_vars(OfferPublished(s))
    /\ WF_vars(CalleeMediaReady(s))
    /\ WF_vars(RoomFetched(s))
    /\ WF_vars(RemoteOfferSet(s))
    /\ WF_vars(AnswerCreated(s))
    /\ WF_vars(LocalAnswerSet(s))
    /\ WF_vars(AnswerPublished(s))
    /\ WF_vars(CandidateSnapshot(s))
    /\ WF_vars(RoomSnapshot(s))
    /\ WF_vars(RemoteAnswerSet(s))

FairSpec == Spec /\ Fairness

-----------------------------------------------------------------------------
(* The sessions together with their engines' connection state.  No handler *)
(* of the App observes that state, so Spec leaves the event out.           *)

ConnNext ==
  \/ Next
  \/ \E s \in Sessions : EngineConnects(s)

ConnSpec == Init /\ [][ConnNext]_vars

ConnFairSpec == ConnSpec /\ Fairness /\ \A s \in Sessions : WF_vars(EngineConnects(s))

-----------------------------------------------------------------------------
(* Properties *)

Callers == {s \in Sessions : role[s] = "caller"}
Callees == {s \in Sessions : role[s] = "callee"}
WritesBy(s) == {w \in writeLog : w.by = s}
RecordsBy(s) ==
  {r \in RoomIds : \E i \in 1..Len(offerCandidates[r]) : offerCandidates[r][i].from = s}
    \cup {r \in RoomIds : \E i \in 1..Len(answerCandidates[r]) : answerCandidates[r][i].from = s}

\* C1: in a caller session the answer is applied as the remote description exactly once,
\* however many Room notifications carry an answer: setRemoteDescription(answer) is
\* called at most once.
C1_AnswerAppliedOnce == \A s \in Callers : srdCalls[s] <= 1

\* C2: once createRoom has completed without error, the caller's Room document exists
\* with offer present, and answer is absent as long as no callee has written an answer.
C2_OfferPresentAfterCreate ==
  \A s \in Callers :
    pc[s] = "done" =>
      /\ RoomData(roomId[s]).exists
      /\ RoomData(roomId[s]).offer # None
      /\ (~\E w \in writeLog : w.field = "answer" /\ w.room = roomId[s] /\ w.as = "callee")
           => RoomData(roomId[s]).answer = None

C2_Witness ==
  \E s \in Callers, c \in Callees :
    /\ pc[s] = "done" /\ pc[c] = "updateDoc" /\ roomId[c] = roomId[s]
    /\ RoomData(roomId[s]).answer = None

\* C3: a callee whose Room lookup finds no document ends with the room-not-found error
\* and has written nothing to the store: no Room document, no answer, no candidate.
C3_RoomNotFound ==
  \A s \in Callees :
    (fetched[s].done /\ ~fetched[s].data.exists) =>
      /\ pc[s] = "done"
      /\ error[s] = ErrRoomNotFound
      /\ WritesBy(s) = {}
      /\ RecordsBy(s) = {}
      /\ \A r \in RoomIds : rooms[r].answer # s /\ rooms[r].offer # s

C3_Witness ==
  \E s \in Callees : fetched[s].done /\ ~fetched[s].data.exists /\ roomId[s] \in RoomIds

\* C4: a callee whose lookup finds a Room document without offer ends with the
\* offer-missing error, has made no engine call (no setRemoteDescription, no createAnswer),
\* has read the Room once and written nothing to the document or the candidate collections.
C4_OfferMissing ==
  \A s \in Callees :
    (fetched[s].done /\ fetched[s].data.exists /\ fetched[s].data.offer = None) =>
      /\ pc[s] = "done"
      /\ error[s] = ErrNoOffer
      /\ engineLog[s] = <<>> /\ srdCalls[s] = 0 /\ remoteDesc[s] = None /\ localDesc[s] = None
      /\ reads[s] = 1
      /\ WritesBy(s) = {}
      /\ RecordsBy(s) = {}
      /\ \A r \in RoomIds : rooms[r].answer # s

C4_Witness ==
  \E s \in Callees : fetched[s].done /\ fetched[s].data.exists /\ fetched[s].data.offer = None

\* C5: joinRoom with the empty room id issues no store read and no subscription, and
\* ends with an error that is not the room-not-found error.
C5_EmptyIdRejected ==
  \A s \in Callees :
    roomId[s] = EmptyId =>
      /\ reads[s] = 0 /\ ~fetched[s].done
      /\ ~candSub[s] /\ ~roomSub[s]
      /\ error[s] # ErrRoomNotFound
      /\ pc[s] = "done" => error[s] = ErrJoin

C5_Witness ==
  \E s \in Callees : roomId[s] = EmptyId /\ pc[s] = "done" /\ inRoom[s]

\* C6: a callee never writes offer or offerCandidates (nor allocates a Room), a caller
\* never writes answer or answerCandidates: each field has one writer role.
C6_RoleExclusive ==
  /\ \A w \in writeLog :
       /\ w.as = "callee" => w.field \in {"answer", "answerCandidates"}
       /\ w.as = "caller" => w.field \in {"room", "offer", "offerCandidates"}
  /\ \A r \in RoomIds :
       /\ \A i \in 1..Len(offerCandidates[r]) : role[offerCandidates[r][i].from] = "caller"
       /\ \A i \in 1..Len(answerCandidates[r]) : role[answerCandidates[r][i].from] = "callee"
       /\ rooms[r].offer # None => role[rooms[r].offer] = "caller"
       /\ rooms[r].answer # None => role[rooms[r].answer] = "callee"

C6_Witness ==
  \E r \in RoomIds :
    /\ rooms[r].offer # None /\ rooms[r].answer # None
    /\ offerCandidates[r] # <<>> /\ answerCandidates[r] # <<>>

\* C7: when a callee looks up a caller's Room whose offer is published, the callee applies
\* the offer and publishes its answer, and the caller's Room listener leads the caller to
\* apply it: the caller's status becomes Connected (under fair scheduling, with no store
\* or engine failure).
C7_CallerConnects ==
  \A c \in Sessions :
    (/\ role[c] = "callee"
     /\ \/ pc[c] = "getDoc" /\ RoomData(roomId[c]).offer # None
        \/ pc[c] = "setRemoteOffer")
      ~> (/\ pc[c] = "done"
          /\ remoteDesc[c] # None
          /\ RoomData(roomId[c]).answer # None
          /\ \E s \in Callers : /\ roomId[s] = roomId[c]
                                /\ remoteDesc[s] # None
                                /\ status[s] = StConnected)

\* the callee joined and the caller connected before the caller published any candidate
C7_Witness ==
  \E s \in Callers, c \in Callees :
    /\ roomId[s] = roomId[c] /\ pc[c] = "done" /\ remoteDesc[c] = s
    /\ offerCandidates[roomId[s]] = <<>>
    /\ remoteDesc[s] = c /\ status[s] = StConnected

\* C8: every record of the peer's collection that the store has reported to a session's
\* listener has been fed to the engine exactly once, whatever the batches were; a record
\* not yet reported has not been fed; when the listener has caught up, every record of
\* the collection has been fed exactly once.
C8_FedExactlyOnce ==
  \A s \in Sessions :
    candSub[s] =>
      LET recs == Records(PeerCollection(IsCaller(s)), roomId[s]) IN
        /\ candCursor[s] <= Len(recs)
        /\ Len(remoteCands[s]) = candCursor[s]
        /\ \A i \in 1..Len(recs) :
             Count(remoteCands[s], recs[i]) = IF i <= candCursor[s] THEN 1 ELSE 0

\* a caller has been fed the records of two callees, and a callee a record that was in
\* the collection before the callee subscribed
C8_Witness ==
  \E s \in Callers, c \in Callees :
    /\ candSub[s] /\ candCursor[s] = 2 /\ Len(remoteCands[s]) = 2
    /\ candSub[c] /\ subscribedAt[c] >= 1 /\ Len(remoteCands[c]) >= 1

\* C9: two deliveries of the same records, in any two orders and any two splits into
\* batches, leave the same set of remote candidates in the engine.
C9_OrderIrrelevant ==
  (posA = Len(orderA) /\ posB = Len(orderB)) => SeqToSet(fedA) = SeqToSet(fedB)

C9_Witness ==
  /\ Len(orderA) = MaxRecs /\ orderA # orderB
  /\ posA = Len(orderA) /\ posB = Len(orderB)
  /\ fedA # fedB

\* C10: when an attempt has ended with a setup error (media, Room not found, offer
\* missing), the status is empty.
C10_StatusResetOnError ==
  \A s \in Sessions :
    (pc[s] \in {"idle", "done"} /\ error[s] \in {ErrCreate, ErrJoin, ErrRoomNotFound, ErrNoOffer})
      => status[s] = ""

\* the attempt of s was aborted by a failure of getUserMedia
MediaFailed(s) == pc[s] = "idle" /\ error[s] \in {ErrCreate, ErrJoin}

\* the attempt of s was aborted by a failed Room lookup
LookupFailed(s) == pc[s] = "done" /\ error[s] \in {ErrRoomNotFound, ErrNoOffer}

\* C11: after an attempt aborted by a setup error (media failure, Room not found, offer
\* missing) the participant is not in a room, so Create Room and Join Room are on offer.
C11_RetryAvailable ==
  \A s \in Sessions : (MediaFailed(s) \/ LookupFailed(s)) => ~inRoom[s]

\* C12: for every Room, offer has been written at most once (exactly once when the caller's
\* createRoom has completed) and answer at most once, over all sessions.
C12_SingleWrites ==
  \A r \in RoomIds :
    /\ Cardinality({w \in writeLog : w.field = "offer" /\ w.room = r}) <= 1
    /\ Cardinality({w \in writeLog : w.field = "answer" /\ w.room = r}) <= 1
    /\ \A s \in Callers : (pc[s] = "done" /\ roomId[s] = r) =>
         Cardinality({w \in writeLog : w.field = "offer" /\ w.room = r}) = 1

\* C13: when getUserMedia fails, the session has allocated no Room, started no listener,
\* made no engine call, read nothing and written nothing.
C13_MediaFailureLeavesNothing ==
  \A s \in Sessions :
    MediaFailed(s) =>
      /\ ~inRoom[s]
      /\ WritesBy(s) = {}
      /\ ~candSub[s] /\ ~roomSub[s] /\ ~iceHandler[s]
      /\ reads[s] = 0 /\ ~fetched[s].done
      /\ engineLog[s] = <<>> /\ localDesc[s] = None
      /\ \A r \in RoomIds : rooms[r].offer # s /\ rooms[r].answer # s

C13_Witness ==
  \E s, u \in Sessions :
    /\ MediaFailed(s) /\ error[s] = ErrCreate
    /\ MediaFailed(u) /\ error[u] = ErrJoin

\* C14: a callee constructs and publishes its answer only after its single Room fetch
\* returned a document with offer present and that offer is its remote description.
C14_AnswerAfterOffer ==
  \A s \in Callees :
    (\/ pc[s] \in {"createAnswer", "setLocalAnswer", "updateDoc"}
     \/ \E i \in 1..Len(engineLog[s]) : engineLog[s][i] = "createAnswer"
     \/ \E w \in WritesBy(s) : w.field = "answer")
      => /\ fetched[s].done /\ reads[s] = 1
         /\ fetched[s].data.exists /\ fetched[s].data.offer # None
         /\ remoteDesc[s] = fetched[s].data.offer

C14_Witness ==
  \E s \in Callees :
    /\ pc[s] = "done" /\ \E w \in WritesBy(s) : w.field = "answer"
    /\ RoomData(roomId[s]).answer = s

\* C15: in a session that has made any description-exchange step (an engine call of the
\* handshake, the Room fetch, a description write), the inbound listener and the outbound
\* onicecandidate handler are installed; a local description is never set, and no
\* candidate discovered, without the outbound handler.
C15_RelayBeforeExchange ==
  \A s \in Sessions :
    (\/ engineLog[s] # <<>> \/ srdCalls[s] > 0
     \/ reads[s] > 0
     \/ localDesc[s] # None \/ remoteDesc[s] # None
     \/ iceEmitted[s] > 0
     \/ \E w \in WritesBy(s) : w.field \in {"offer", "answer"})
      => candSub[s] /\ iceHandler[s]

C15_Witness ==
  \E s \in Callers, c \in Callees :
    /\ pc[s] = "createOffer" /\ engineLog[s] = <<"createOffer">> /\ iceHandler[s]
    /\ pc[c] = "getDoc" /\ reads[c] = 1 /\ iceHandler[c]

\* C16: a candidate record fed to the engine before the engine has its remote
\* description is not lost: once the remote description is applied, every record the
\* relay has fed is among the engine's remote candidates.
C16_EarlyCandidateKept ==
  \A s \in Sessions :
    remoteDesc[s] # None =>
      \A i \in 1..Len(remoteCands[s]) : Count(iceAccepted[s], remoteCands[s][i]) = 1

\* C19: once the engine of a session is connected to its peer, the session's status
\* eventually reads 'Connected!'.
C19_ConnectedShown ==
  \A s \in Sessions : connected[s] ~> (status[s] = StConnected)

\* a feed of s that the engine rejected: the relay's calls outnumber the accepted ones
FeedFailed(s) == Len(iceAccepted[s]) < Len(remoteCands[s])

\* C17: a step in which a feed of inbound candidate records is rejected by the engine
\* leaves the session's subscription active, its cursor past the whole batch (every
\* record of the batch was passed to the engine), and its position, role, status, error
\* and engine descriptions unchanged; and a session with a failed feed is still
\* subscribed and has fed every record delivered since.
C17_FeedFailureOnlyLogged ==
  /\ [][\A s \in Sessions :
         (remoteCands'[s] # remoteCands[s] /\ iceAccepted'[s] = iceAccepted[s]) =>
           /\ candSub'[s]
           /\ Len(remoteCands'[s]) = candCursor'[s]
           /\ pc'[s] = pc[s] /\ role'[s] = role[s] /\ inRoom'[s] = inRoom[s]
           /\ status'[s] = status[s] /\ error'[s] = error[s]
           /\ localDesc'[s] = localDesc[s] /\ remoteDesc'[s] = remoteDesc[s]
           /\ srdPending'[s] = srdPending[s]]_vars
  /\ [](\A s \in Sessions :
         FeedFailed(s) => candSub[s] /\ Len(remoteCands[s]) = candCursor[s])

\* a caller whose first fed record was rejected and whose second, delivered in a later
\* batch, was accepted
C17_Witness ==
  \E s \in Callers :
    /\ Len(remoteCands[s]) = 2 /\ Len(iceAccepted[s]) = 1
    /\ iceAccepted[s][1] = remoteCands[s][2]
    /\ error[s] = "" /\ candSub[s]

\* C18: a callee reads the Room document once at most and holds no subscription to it;
\* once its single fetch is over and its own negotiation has ended, no step changes
\* its status, its engine's descriptions or calls, or the set of its store writes,
\* whatever happens to the Room document.
C18_CalleeSingleRead ==
  /\ [](\A s \in Callees :
         /\ reads[s] <= 1 /\ ~roomSub[s] /\ roomSeen[s] = 0
         /\ srdCalls[s] <= 1 /\ Len(srdPending[s]) <= 1
         /\ fetched[s].done => reads[s] = 1)
  /\ [][\A s \in Sessions :
         (role[s] = "callee" /\ pc[s] = "done") =>
           /\ pc'[s] = "done" /\ status'[s] = status[s] /\ reads'[s] = reads[s]
           /\ engineLog'[s] = engineLog[s] /\ srdCalls'[s] = srdCalls[s]
           /\ localDesc'[s] = localDesc[s] /\ remoteDesc'[s] = remoteDesc[s]
           /\ {w \in writeLog' : w.by = s /\ w.field \in {"room", "offer", "answer"}}
                = {w \in writeLog : w.by = s /\ w.field \in {"room", "offer", "answer"}}]_vars

\* a callee whose join failed for want of an offer, and whose Room now holds an offer and
\* another callee's answer
C18_Witness ==
  \E s \in Callees :
    /\ LookupFailed(s) /\ error[s] = ErrNoOffer /\ engineLog[s] = <<>>
    /\ RoomData(roomId[s]).offer # None /\ RoomData(roomId[s]).answer # None

\* C20: in every Room an answer is present only if an offer is; and the caller's
\* whole-document offer write never finds an answer to erase.
C20_AnswerImpliesOffer ==
  /\ \A r \in RoomIds : rooms[r].answer # None => rooms[r].offer # None
  /\ \A s \in Sessions : pc[s] = "setDoc" => RoomData(roomId[s]).answer = None

\* a Room holding both an offer and an answer while its caller is done
C20_Witness ==
  \E s \in Callers :
    /\ pc[s] = "done" /\ RoomData(roomId[s]).offer = s
    /\ RoomData(roomId[s]).answer \in Callees

\* the offer or answer writes of s recorded so far
DescriptionWritesBy(s) == {w \in WritesBy(s) : w.field \in {"offer", "answer"}}

\* C21: a session writes its offer or answer to the store only when that description is
\* already the local description of its engine, so every description held by a Room is
\* its writer's local description; a caller holds the Room subscription only once its
\* offer write has completed; and a caller that has called setRemoteDescription(answer)
\* has its local offer set and published.
C21_LocalBeforePublish ==
  /\ \A s \in Sessions :
       DescriptionWritesBy(s) # {} =>
         /\ localDesc[s] = s
         /\ \E i \in 1..Len(engineLog[s]) : engineLog[s][i] = "setLocalDescription"
  /\ \A r \in RoomIds :
       /\ rooms[r].offer # None => localDesc[rooms[r].offer] = rooms[r].offer
       /\ rooms[r].answer # None => localDesc[rooms[r].answer] = rooms[r].answer
  /\ \A s \in Sessions :
       roomSub[s] =>
         /\ IsCaller(s) /\ pc[s] = "done"
         /\ \E w \in WritesBy(s) : w.field = "offer" /\ w.room = roomId[s]
         /\ RoomData(roomId[s]).offer = s
  /\ \A s \in Callers :
       (srdCalls[s] > 0 \/ srdPending[s] # <<>> \/ remoteDesc[s] # None) =>
         roomSub[s] /\ localDesc[s] = s

\* a caller that has applied the answer of a callee, both having published their local
\* descriptions
C21_Witness ==
  \E s \in Callers, c \in Callees :
    /\ remoteDesc[s] = c /\ localDesc[s] = s /\ roomSub[s]
    /\ localDesc[c] = c /\ DescriptionWritesBy(c) # {}
    /\ RoomData(roomId[s]).offer = s /\ RoomData(roomId[s]).answer = c

=============================================================================
